---- MODULE Spec2Model ----
(***************************************************************************)
(* term-type: the typing session (src/src/app.rs), its word sources, the   *)
(* score calculation and the App that holds one session and one statistics *)
(* record.  Words and passages are sequences of one-character strings.     *)
(* Option<T> is a set with at most one element: None is {}, Some(x) is {x}.*)
(***************************************************************************)
EXTENDS Integers, Sequences, FiniteSets, TLC

\* ------------------------------------------------------------------ bounds
\* Longest passage handed to Session::from / App::from_str.
MaxPassageLen == 4
\* Most characters the typist has on the screen, over all input words.
MaxChars == 3
\* Most input words the model lets a session hold.
MaxWords == 2
\* Largest size handed to Session::random_with_size / App::with_word_count.
MaxSize == 1
\* Largest index handed to a lookup made directly on the source.
MaxIndex == 3
\* Last reading of the monotonic clock.
MaxTime == 1
\* Session::default() asks for 25 random words (app.rs:127); the model scales
\* that count down to keep the initial states enumerable.
DefaultSize == 1

\* ------------------------------------------------------------- vocabulary
\* Characters on_key / on_char receive (main.rs:50-53 sends ' ' to on_space).
Chars == {"a", "b"}
\* Characters of the passages handed to Session::from: one letter and the
\* separator, so a typed "b" is a mistake at every position.
PassageChars == {"a", " "}

\* The candidate pool read from WORD_LIST_FILE, split on '\n' (app.rs:32-43):
\* a trailing newline leaves an empty last candidate.
WordList == {<<>>, <<"a">>, <<"a", "b">>}

SeqsUpTo(S, n) == UNION {[1..k -> S] : k \in 0..n}
Passages == SeqsUpTo(PassageChars, MaxPassageLen)

None == {}
Some(x) == {x}
Unwrap(o) == CHOOSE x \in o : TRUE

NoFault == "none"

\* str::split(' '): the pieces between separators, empty pieces kept.
RECURSIVE SplitFrom(_, _, _, _)
SplitFrom(s, i, cur, acc) ==
    IF i > Len(s) THEN Append(acc, cur)
    ELSE IF s[i] = " " THEN SplitFrom(s, i + 1, <<>>, Append(acc, cur))
    ELSE SplitFrom(s, i + 1, Append(cur, s[i]), acc)

Split(s) == SplitFrom(s, 1, <<>>, <<>>)

\* ---------------------------------------------------------- word sources
\* with_size that reserves room for s words without drawing them.
RandomWordGenerator_with_size_lazy(s) ==
    {[kind |-> "Random", words |-> <<>>, size |-> Some(s)]}

\* RandomWordGenerator::with_size: s words drawn from the pool, size Some(s).
RandomWordGenerator_with_size(s) ==
    {[kind |-> "Random", words |-> w, size |-> Some(s)] : w \in [1..s -> WordList]}

\* StaticWordGenerator::from that keeps no empty piece, as split_whitespace
\* would, while Session::from still splits on single spaces.
StaticWordGenerator_from_no_empty(p) ==
    [kind |-> "Static", words |-> SelectSeq(Split(p), LAMBDA w : w # <<>>),
     size |-> None]

\* StaticWordGenerator::from: the passage split on single spaces.
StaticWordGenerator_from(p) ==
    [kind |-> "Static", words |-> Split(p), size |-> None]

\* RandomWordGenerator::add_words: every way of pushing n random words.
add_words(g, n) ==
    {[g EXCEPT !.words = g.words \o ext] : ext \in [1..n -> WordList]}

\* get_word_at_frozen that answers with the last word past the end.
get_word_at_frozen_clamped(g, index) ==
    IF g.words = <<>> THEN None
    ELSE IF index >= Len(g.words) THEN Some(g.words[Len(g.words)])
    ELSE Some(g.words[index + 1])

\* WordGenerator::get_word_at_frozen (both implementations), index from 0.
get_word_at_frozen(g, index) ==
    IF index >= Len(g.words) THEN None ELSE Some(g.words[index + 1])

\* get_word_at that draws the whole sequence again when it has to grow.
get_word_at_reroll(g, index) ==
    IF g.kind = "Static"
    THEN {[gen |-> g, word |-> get_word_at_frozen(g, index)]}
    ELSE LET grown == IF index >= Len(g.words)
                      THEN {[g EXCEPT !.words = w] : w \in [1..(index + 1) -> WordList]}
                      ELSE {g}
         IN {[gen |-> h, word |-> Some(h.words[index + 1])] : h \in grown}

\* WordGenerator::get_word_at: the possible (generator, word) outcomes.
get_word_at(g, index) ==
    IF g.kind = "Static"
    THEN {[gen |-> g, word |-> get_word_at_frozen(g, index)]}
    ELSE LET grown == IF index >= Len(g.words)
                      THEN add_words(g, index - Len(g.words) + 1)
                      ELSE {g}
         IN {[gen |-> h, word |-> Some(h.words[index + 1])] : h \in grown}

\* WordGenerator::len
len(g) == IF g.kind = "Static" THEN Some(Len(g.words)) ELSE g.size

\* ---------------------------------------------------------------- session
Ok(s) == [session |-> s, fault |-> NoFault]
Panic(s, msg) == [session |-> s, fault |-> msg]

Session_random_with_size(n) ==
    {[state |-> "Idle", start_time |-> None, duration |-> None,
      target_words |-> g, target_text |-> <<>>, input |-> <<<<>>>>]
        : g \in RandomWordGenerator_with_size(n)}

Session_from(p) ==
    [state |-> "Idle", start_time |-> None, duration |-> None,
     target_words |-> StaticWordGenerator_from(p), target_text |-> Split(p),
     input |-> <<<<>>>>]

Session_default == Session_random_with_size(DefaultSize)

start_session(s, t) ==
    IF s.state # "Idle" THEN Panic(s, "Can't start active or ended session!")
    ELSE Ok([s EXCEPT !.state = "Active", !.start_time = Some(t)])

\* stop_session that stamps the start time again as it measures.
stop_session_restamps(s, t) ==
    IF s.state # "Active" THEN Panic(s, "Session ended before starting!")
    ELSE IF s.start_time = None THEN Panic(s, "Start time was never set!")
    ELSE Ok([s EXCEPT !.duration = Some(t - Unwrap(s.start_time)),
                      !.start_time = Some(t),
                      !.state = "Finished"])

stop_session(s, t) ==
    IF s.state # "Active" THEN Panic(s, "Session ended before starting!")
    ELSE IF s.start_time = None THEN Panic(s, "Start time was never set!")
    ELSE Ok([s EXCEPT !.duration = Some(t - Unwrap(s.start_time)),
                      !.state = "Finished"])

\* on_char that ends the session on any word typed right, without the test
\* on the word count.
on_char_any_word(s, c, t) ==
    LET r0 == IF s.state = "Idle" THEN start_session(s, t) ELSE Ok(s)
        s1 == r0.session
    IN  IF s1.state # "Active"
        THEN {Panic(s1, "Input received before session started!")}
        ELSE LET input_len == Len(s1.input)
                 s2 == [s1 EXCEPT !.input[input_len] = Append(@, c)]
             IN  IF get_word_at_frozen(s2.target_words, input_len - 1)
                        = Some(s2.input[input_len])
                 THEN {stop_session(s2, t)}
                 ELSE {Ok(s2)}

on_char(s, c, t) ==
    LET r0 == IF s.state = "Idle" THEN start_session(s, t) ELSE Ok(s)
        s1 == r0.session
    IN  IF r0.fault # NoFault THEN {r0}
        ELSE IF s1.state # "Active"
        THEN {Panic(s1, "Input received before session started!")}
        ELSE IF Len(s1.input) = 0 THEN {Panic(s1, "No words in input!")}
        ELSE LET input_len == Len(s1.input)
                 s2 == [s1 EXCEPT !.input[input_len] = Append(@, c)]
                 last_word == s2.input[input_len]
             IN  IF len(s2.target_words) # Some(input_len) THEN {Ok(s2)}
                 ELSE {LET s3 == [s2 EXCEPT !.target_words = g.gen]
                       IN  IF g.word = None THEN Panic(s3, "empty target text!")
                           ELSE IF Unwrap(g.word) = last_word
                           THEN stop_session(s3, t)
                           ELSE Ok(s3)
                          : g \in get_word_at(s2.target_words, input_len - 1)}

\* on_space that opens a new word even after an empty one.
on_space_always_pushes(s, t) ==
    IF s.state = "Idle" THEN Ok(s)
    ELSE IF s.state # "Active"
    THEN Panic(s, "Input received before session started!")
    ELSE IF Len(s.target_text) = Len(s.input) THEN stop_session(s, t)
    ELSE Ok([s EXCEPT !.input = Append(@, <<>>)])

\* on_space that starts an Idle session, as on_char does.
on_space_starts(s, t) ==
    LET s1 == IF s.state = "Idle" THEN start_session(s, t).session ELSE s
    IN  IF s1.state # "Active"
        THEN Panic(s1, "Input received before session started!")
        ELSE IF Len(s1.target_text) = Len(s1.input) THEN stop_session(s1, t)
        ELSE IF s1.input[Len(s1.input)] # <<>>
        THEN Ok([s1 EXCEPT !.input = Append(@, <<>>)])
        ELSE Ok(s1)

\* on_space with the end test one word early.
on_space_early(s, t) ==
    IF s.state = "Idle" THEN Ok(s)
    ELSE IF s.state # "Active"
    THEN Panic(s, "Input received before session started!")
    ELSE IF Len(s.target_text) = Len(s.input) + 1 THEN stop_session(s, t)
    ELSE IF s.input[Len(s.input)] # <<>>
    THEN Ok([s EXCEPT !.input = Append(@, <<>>)])
    ELSE Ok(s)

on_space(s, t) ==
    IF s.state = "Idle" THEN Ok(s)
    ELSE IF s.state # "Active"
    THEN Panic(s, "Input received before session started!")
    ELSE IF Len(s.input) = 0 THEN Panic(s, "No words in input!")
    ELSE LET input_len == Len(s.input)
             last_word == s.input[input_len]
         IN  IF Len(s.target_text) = input_len THEN stop_session(s, t)
             ELSE IF last_word # <<>>
             THEN Ok([s EXCEPT !.input = Append(@, <<>>)])
             ELSE Ok(s)

\* on_del that empties the last word instead of removing one character.
on_del_clear_word(s) ==
    IF s.state # "Active"
    THEN Panic(s, "Input received before session started!")
    ELSE LET n == Len(s.input)
         IN  IF s.input[n] = <<>>
             THEN IF n # 1
                  THEN Ok([s EXCEPT !.input = SubSeq(@, 1, n - 1)])
                  ELSE Ok(s)
             ELSE Ok([s EXCEPT !.input[n] = <<>>])

\* on_del that, dropping an empty last word, also takes the last character
\* of the word before it.
on_del_pop_both(s) ==
    IF s.state # "Active"
    THEN Panic(s, "Input received before session started!")
    ELSE LET n == Len(s.input)
         IN  IF s.input[n] = <<>>
             THEN IF n # 1
                  THEN Ok([s EXCEPT !.input =
                              [SubSeq(@, 1, n - 1) EXCEPT ![n - 1] =
                                  SubSeq(@, 1, Len(@) - 1)]])
                  ELSE Ok(s)
             ELSE Ok([s EXCEPT !.input[n] = SubSeq(@, 1, Len(@) - 1)])

\* on_del without the one-word floor.
on_del_no_floor(s) ==
    IF s.state # "Active"
    THEN Panic(s, "Input received before session started!")
    ELSE LET n == Len(s.input)
         IN  IF s.input[n] = <<>>
             THEN Ok([s EXCEPT !.input = SubSeq(@, 1, n - 1)])
             ELSE Ok([s EXCEPT !.input[n] = SubSeq(@, 1, Len(@) - 1)])

\* on_del without the state assertion.
on_del_unchecked(s) ==
    LET n == Len(s.input)
    IN  IF s.input[n] = <<>>
        THEN IF n # 1
             THEN Ok([s EXCEPT !.input = SubSeq(@, 1, n - 1)])
             ELSE Ok(s)
        ELSE Ok([s EXCEPT !.input[n] = SubSeq(@, 1, Len(@) - 1)])

on_del(s) ==
    IF s.state # "Active"
    THEN Panic(s, "Input received before session started!")
    ELSE IF Len(s.input) = 0 THEN Panic(s, "No words in input!")
    ELSE LET n == Len(s.input)
             last_word == s.input[n]
         IN  IF last_word = <<>>
             THEN IF n # 1
                  THEN Ok([s EXCEPT !.input = SubSeq(@, 1, n - 1)])
                  ELSE Ok(s)
             ELSE Ok([s EXCEPT !.input[n] = SubSeq(@, 1, Len(@) - 1)])

get_input_words(s) == s.input

\* The loop of get_attempted_words from index i on: stops at the first absent word.
RECURSIVE attempted_from(_, _, _)
attempted_from(s, i, words) ==
    IF i >= Len(s.input) THEN words
    ELSE LET w == get_word_at_frozen(s.target_words, i)
         IN  IF w = None THEN words
             ELSE attempted_from(s, i + 1, Append(words, Unwrap(w)))

get_attempted_words(s) == attempted_from(s, 0, <<>>)

\* ------------------------------------------------------------------ score
\* f32 quotients are kept exact, as numerator and denominator.
Ratio(n, d) == [num |-> n, den |-> d]

\* #[derive(Default)] on SessionStats: every field zero.
SessionStats_default ==
    [wpm |-> Ratio(0, 1), wpm_raw |-> Ratio(0, 1), acc |-> Ratio(0, 1),
     char_corr |-> 0, char_total |-> 0, word_corr |-> 0, word_total |-> 0,
     duration_s |-> 0]

\* The loop of word_compare: positions, from i on, where both words have the
\* same character.
RECURSIVE matching_from(_, _, _)
matching_from(inp, targ, i) ==
    IF i > Len(inp) \/ i > Len(targ) THEN 0
    ELSE (IF inp[i] = targ[i] THEN 1 ELSE 0) + matching_from(inp, targ, i + 1)

\* word_compare taking the typed word's length as the total.
word_compare_input_len(inp, targ) ==
    LET char_corr == matching_from(inp, targ, 1)
    IN  <<char_corr, Len(inp), char_corr = Len(inp)>>

\* SessionStats::word_compare: (correct chars, total chars, word correct).
word_compare(inp, targ) ==
    LET char_corr == matching_from(inp, targ, 1)
        ttl_chars == IF Len(targ) > Len(inp) THEN Len(targ) ELSE Len(inp)
    IN  <<char_corr, ttl_chars, char_corr = ttl_chars>>

\* The `for in_word in input_words` loop of SessionStats::from, from word i on;
\* attempted_words[i] past the end is an index panic.
RECURSIVE compare_from(_, _, _, _)
compare_from(input_words, attempted_words, i, acc) ==
    IF i >= Len(input_words) THEN [acc EXCEPT !.fault = NoFault]
    ELSE IF i >= Len(attempted_words)
    THEN [acc EXCEPT !.fault = "index out of bounds"]
    ELSE LET r == word_compare(input_words[i + 1], attempted_words[i + 1])
         IN  compare_from(input_words, attempted_words, i + 1,
                 [acc EXCEPT !.char_corr = @ + r[1],
                             !.char_total = @ + r[2],
                             !.word_corr = @ + (IF r[3] THEN 1 ELSE 0),
                             !.correct_word_char_count = @ + (IF r[3] THEN r[2] ELSE 0),
                             !.word_total = @ + 1])

\* "account for spaces" (app.rs:329-333): the amount added to the three counts.
space_adjustment(word_corr) == word_corr - 1

\* SessionStats::from: the record, or the panic that ends the call.
SessionStats_from(s) ==
    IF s.state # "Finished"
    THEN [stats |-> SessionStats_default,
          fault |-> "Calculating stats on a session before it is finished"]
    ELSE LET sums == compare_from(get_input_words(s), get_attempted_words(s), 0,
                        [char_corr |-> 0, char_total |-> 0, word_corr |-> 0,
                         word_total |-> 0, correct_word_char_count |-> 0,
                         fault |-> NoFault])
             adj == space_adjustment(sums.word_corr)
             correct_word_char_count == sums.correct_word_char_count + adj
             char_corr == sums.char_corr + adj
             char_total == sums.char_total + adj
         IN  IF sums.fault # NoFault
             THEN [stats |-> SessionStats_default, fault |-> sums.fault]
             ELSE IF s.duration = None
             THEN [stats |-> SessionStats_default,
                   fault |-> "Calculating stats on a session without duration"]
             ELSE LET duration_s == Unwrap(s.duration)
                  IN  [stats |->
                         [wpm |-> Ratio(correct_word_char_count * 60, 5 * duration_s),
                          wpm_raw |-> Ratio(char_total * 60, 5 * duration_s),
                          acc |-> Ratio(char_corr, char_total),
                          char_corr |-> char_corr, char_total |-> char_total,
                          word_corr |-> sums.word_corr,
                          word_total |-> sums.word_total,
                          duration_s |-> duration_s],
                       fault |-> NoFault]

\* -------------------------------------------------------------------- state
VARIABLES
    active_session,      \* App.active_session: the Session record
    active_stats,        \* App.active_stats
    app_state,           \* App.state: "Menu", "Typing" or "Stats"
    quit,                \* App.quit
    default_text,        \* App.default_text: Option<String>
    default_word_count,  \* App.default_word_count: Option<usize>
    now,                 \* the monotonic clock Instant::now() reads
    fault,               \* the panic that ended the run, or NoFault
    pos,                 \* characters of the passage the replay loop has fed
    looked               \* the last lookup made on the source and its result

vars == <<active_session, active_stats, app_state, quit, default_text,
          default_word_count, now, fault, pos, looked>>

app_config == <<default_text, default_word_count>>

\* What the model lets a session grow to.
RECURSIVE TotalLen(_)
TotalLen(ws) == IF ws = <<>> THEN 0 ELSE Len(Head(ws)) + TotalLen(Tail(ws))

InBounds(s) == Len(s.input) <= MaxWords /\ TotalLen(s.input) <= MaxChars

\* A panic unwinds out of the handler: nothing runs after it.
Running == fault = NoFault /\ ~quit

\* ----------------------------------------------------------------- the App
\* App::open_typing: the sessions it may install.
open_typing(text, count) ==
    LET sessions == IF text # None THEN {Session_from(Unwrap(text))}
                    ELSE IF count # None THEN Session_random_with_size(Unwrap(count))
                    ELSE Session_default
    IN  {[session |-> s, state |-> "Typing"] : s \in sessions}

\* open_stats that shows the screen without storing the new record.
open_stats_stale(s, stats) ==
    [state |-> "Stats", stats |-> stats, fault |-> NoFault]

\* App::open_stats
open_stats(s, stats) ==
    LET r == SessionStats_from(s)
    IN  IF r.fault # NoFault
        THEN [state |-> "Typing", stats |-> stats, fault |-> r.fault]
        ELSE [state |-> "Stats", stats |-> r.stats, fault |-> NoFault]

\* App::open_menu
open_menu == "Menu"

\* App::check_state
check_state(st, s, stats) ==
    IF st = "Typing" /\ s.state = "Finished" THEN open_stats(s, stats)
    ELSE [state |-> st, stats |-> stats, fault |-> NoFault]

\* The Session call of an App handler, then check_state unless the call panicked.
Dispatch(r, checked) ==
    /\ active_session' = r.session
    /\ IF r.fault # NoFault \/ ~checked
       THEN /\ fault' = r.fault
            /\ UNCHANGED <<app_state, active_stats>>
       ELSE LET k == check_state(app_state, r.session, active_stats)
            IN  /\ app_state' = k.state
                /\ active_stats' = k.stats
                /\ fault' = k.fault
    /\ UNCHANGED <<quit, app_config, now>>

App_on_esc ==
    /\ quit' = TRUE
    /\ UNCHANGED <<active_session, active_stats, app_state, app_config, now, fault>>

App_on_enter ==
    /\ CASE app_state = "Menu" ->
              \E o \in open_typing(default_text, default_word_count) :
                  /\ active_session' = o.session
                  /\ app_state' = o.state
         [] app_state = "Stats" ->
              /\ app_state' = open_menu
              /\ UNCHANGED active_session
         [] OTHER -> UNCHANGED <<active_session, app_state>>
    /\ UNCHANGED <<active_stats, quit, app_config, now, fault>>

App_on_space ==
    Dispatch(IF app_state = "Typing" THEN on_space(active_session, now)
             ELSE Ok(active_session), TRUE)

App_on_key(c) ==
    \E r \in (IF app_state = "Typing" THEN on_char(active_session, c, now)
              ELSE {Ok(active_session)}) : Dispatch(r, TRUE)

App_on_del ==
    Dispatch(IF app_state = "Typing" THEN on_del(active_session)
             ELSE Ok(active_session), FALSE)

\* ------------------------------------------------------- the App's events
\* App::default, App::from_str and App::with_word_count: the Menu, an unused
\* default session, no statistics yet.
InitApp ==
    /\ \/ default_text = None /\ default_word_count = None
       \/ default_text \in {Some(p) : p \in Passages} /\ default_word_count = None
       \/ default_text = None /\ default_word_count \in {Some(n) : n \in 0..MaxSize}
    /\ active_session \in Session_default
    /\ active_stats = SessionStats_default
    /\ app_state = "Menu"
    /\ quit = FALSE
    /\ now = 0
    /\ fault = NoFault
    /\ pos = 0
    /\ looked = None

\* The clock moves between events.  Only start_session and stop_session read
\* it, so the model lets it move while a session is Active and not otherwise.
Tick ==
    /\ Running
    /\ active_session.state = "Active"
    /\ now < MaxTime
    /\ now' = now + 1
    /\ UNCHANGED <<active_session, active_stats, app_state, quit, app_config, fault, pos, looked>>

KeyEsc == Running /\ App_on_esc /\ UNCHANGED <<pos, looked>>
KeyEnter == Running /\ App_on_enter /\ UNCHANGED <<pos, looked>>
KeySpace == Running /\ App_on_space /\ InBounds(active_session') /\ UNCHANGED <<pos, looked>>
KeyChar == Running /\ (\E c \in Chars : App_on_key(c)) /\ InBounds(active_session') /\ UNCHANGED <<pos, looked>>
KeyDel == Running /\ App_on_del /\ InBounds(active_session') /\ UNCHANGED <<pos, looked>>

NextApp == KeyEsc \/ KeyEnter \/ KeySpace \/ KeyChar \/ KeyDel \/ Tick

SpecApp == InitApp /\ [][NextApp]_vars

\* -------------------------------------------- a session driven directly
\* The App right after open_typing, its session then called directly, as the
\* tests do (app.active_session, test_3's session).
Init ==
    /\ \/ default_text \in {Some(p) : p \in Passages} /\ default_word_count = None
       \/ default_text = None /\ default_word_count \in {Some(n) : n \in 0..MaxSize}
    /\ \E o \in open_typing(default_text, default_word_count) :
           active_session = o.session /\ app_state = o.state
    /\ active_stats = SessionStats_default
    /\ quit = FALSE
    /\ now = 0
    /\ fault = NoFault
    /\ pos = 0
    /\ looked = None

Call(r) ==
    /\ Running
    /\ InBounds(r.session)
    /\ active_session' = r.session
    /\ fault' = r.fault
    /\ UNCHANGED <<active_stats, app_state, quit, app_config, now, pos, looked>>

OnChar == \E c \in Chars : \E r \in on_char(active_session, c, now) : Call(r)
OnSpace == Call(on_space(active_session, now))
OnDel == Call(on_del(active_session))
StartSession == Call(start_session(active_session, now))
StopSession == Call(stop_session(active_session, now))

\* let stats = SessionStats::from(&session), as test_3 does.
Stats ==
    /\ Running
    /\ LET r == SessionStats_from(active_session)
       IN  /\ fault' = r.fault
           /\ active_stats' = IF r.fault = NoFault THEN r.stats ELSE active_stats
    /\ UNCHANGED <<active_session, app_state, quit, app_config, now, pos, looked>>

Next == OnChar \/ OnSpace \/ OnDel \/ Stats \/ Tick

Spec == Init /\ [][Next]_vars

\* The whole public Session API, start_session and stop_session included.
NextApi == OnChar \/ OnSpace \/ OnDel \/ StartSession \/ StopSession \/ Stats \/ Tick

SpecApi == Init /\ [][NextApi]_vars

\* ------------------------------------------------------ queries and drawing
\* draw_typing renders input.len() + 10 words of a source without a length.
RenderAhead == 10

\* The render loop of draw_typing from word i on: every word comes from the
\* growing lookup, and an absent one is a panic.
RECURSIVE render_from(_, _, _)
render_from(g, i, n) ==
    IF i >= n THEN {[gen |-> g, fault |-> NoFault]}
    ELSE UNION {IF o.word = None
                THEN {[gen |-> o.gen, fault |-> "Ran out of words unexpectedly!"]}
                ELSE render_from(o.gen, i + 1, n)
                   : o \in get_word_at(g, i)}

\* ui::draw_typing: the sessions it may leave behind.
draw_typing(s) ==
    LET words_to_render == IF len(s.target_words) # None
                           THEN Unwrap(len(s.target_words))
                           ELSE Len(s.input) + RenderAhead
    IN  {[session |-> [s EXCEPT !.target_words = o.gen], fault |-> o.fault]
            : o \in render_from(s.target_words, 0, words_to_render)}

\* ui::draw: only the typing view touches the session.
draw(st, s) == IF st = "Typing" THEN draw_typing(s) ELSE {Ok(s)}

\* terminal.draw(|frame| draw(frame, app)) between two events.
Draw ==
    /\ Running
    /\ \E o \in draw(app_state, active_session) :
           /\ active_session' = o.session
           /\ fault' = o.fault
    /\ UNCHANGED <<active_stats, app_state, quit, app_config, now, pos, looked>>

\* session.get_attempted_words(): a &self query, its result a function of the
\* session.
QueryAttempted ==
    /\ Running
    /\ Len(get_attempted_words(active_session)) <= Len(active_session.input)
    /\ UNCHANGED vars

NextView == Next \/ Draw \/ QueryAttempted

SpecView == Init /\ [][NextView]_vars

\* ------------------------------------------------ lookups on the source
\* session.target_words.get_word_at(i), called directly as test_3 does.
LookupGrowing ==
    /\ Running
    /\ \E i \in 0..MaxIndex : \E o \in get_word_at(active_session.target_words, i) :
          /\ active_session' = [active_session EXCEPT !.target_words = o.gen]
          /\ looked' = Some([growing |-> TRUE, index |-> i, word |-> o.word])
    /\ UNCHANGED <<active_stats, app_state, quit, app_config, now, fault, pos>>

\* session.target_words.get_word_at_frozen(i)
LookupFrozen ==
    /\ Running
    /\ \E i \in 0..MaxIndex :
          looked' = Some([growing |-> FALSE, index |-> i,
                          word |-> get_word_at_frozen(active_session.target_words, i)])
    /\ UNCHANGED <<active_session, active_stats, app_state, quit, app_config,
                   now, fault, pos>>

NextLookup == LookupGrowing \/ LookupFrozen

SpecLookup == Init /\ [][NextLookup]_vars

\* ------------------------------------------------- a passage fed verbatim
\* test_2's loop over an App built by App::from_str and opened for typing:
\* for c in passage.chars() { if c == ' ' { on_space() } else { on_key(c) } }
InitFeed == Init /\ default_text # None

Feeding == Running /\ default_text # None /\ pos < Len(Unwrap(default_text))

FeedSpace ==
    /\ Feeding
    /\ Unwrap(default_text)[pos + 1] = " "
    /\ App_on_space
    /\ pos' = pos + 1
    /\ UNCHANGED looked

FeedKey ==
    /\ Feeding
    /\ Unwrap(default_text)[pos + 1] # " "
    /\ App_on_key(Unwrap(default_text)[pos + 1])
    /\ pos' = pos + 1
    /\ UNCHANGED looked

NextFeed == FeedSpace \/ FeedKey \/ Tick

SpecFeed == InitFeed /\ [][NextFeed]_vars

\* ================================================================= claims
Session == active_session
Fresh == <<<<>>>>
Declared == len(Session.target_words)
Target(i) == Session.target_words.words[i]
AtDeclaredLength == Declared # None /\ Len(Session.input) = Unwrap(Declared)
\* The statistics on record were computed (a computed record counts a word).
Scored == Session.state = "Finished" /\ active_stats.word_total > 0

Max(a, b) == IF a > b THEN a ELSE b
Min(a, b) == IF a < b THEN a ELSE b
Agree(inp, targ) ==
    Cardinality({j \in 1..Min(Len(inp), Len(targ)) : inp[j] = targ[j]})
RECURSIVE SumOver(_, _, _)
SumOver(F(_), lo, hi) == IF lo > hi THEN 0 ELSE F(lo) + SumOver(F, lo + 1, hi)

\* C1: after every on_char, on_space and on_del event on a fresh session the
\* input sequence has at least one element.
C1_InputNeverEmpty == Len(Session.input) >= 1

\* C1 witness: a started session deleted back to the single empty word.
C1_Witness == Session.state = "Active" /\ Session.input = Fresh

\* One call that makes both state changes: on_char on an Idle session runs
\* start_session (Idle -> Active), pushes the character and, the target being
\* complete, runs stop_session (Active -> Finished).
StartThenStop ==
    LET started == start_session(Session, now).session
        typed == [started EXCEPT !.input = Session'.input,
                                 !.target_words = Session'.target_words]
    IN  /\ Session.state = "Idle"
        /\ started.state = "Active"
        /\ Session' = stop_session(typed, now).session
        /\ Session'.state = "Finished"

\* C2: once Finished, start_session, stop_session, on_char, on_space and on_del
\* each end in a fault and leave state, input and duration alone; the state
\* only ever changes Idle -> Active and Active -> Finished (a single call makes
\* either one of these changes, or the first and then the second).
C2_FinishedTerminal ==
    [][/\ (Session.state = "Finished"
            /\ (StartSession \/ StopSession \/ OnChar \/ OnSpace \/ OnDel))
          => /\ fault' # NoFault
             /\ Session'.state = "Finished"
             /\ Session'.input = Session.input
             /\ Session'.duration = Session.duration
       /\ Session'.state # Session.state
          => \/ <<Session.state, Session'.state>>
                   \in {<<"Idle", "Active">>, <<"Active", "Finished">>}
             \/ StartThenStop]_vars

\* C2 witness: a Finished session on which an event was rejected.
C2_Witness ==
    /\ Session.state = "Finished"
    /\ fault = "Input received before session started!"

\* C3: with a declared length, on_space on an Active session whose word count
\* equals that length finishes the session on that event.
C3_SpaceFinishesAtDeclaredLength ==
    [][(Session.state = "Active" /\ AtDeclaredLength /\ OnSpace)
          => Session'.state = "Finished"]_vars

\* A passage of non-empty words separated by single spaces.
WellFormed(p) == \A i \in 1..Len(Split(p)) : Split(p)[i] # <<>>

\* C4: a well-formed Fixed passage fed verbatim keeps the session unfinished
\* until its last character and Finished right after it, with the input equal
\* to the attempted words and char_corr equal to char_total.
C4_VerbatimCompletes ==
    (default_text # None /\ WellFormed(Unwrap(default_text))) =>
        LET p == Unwrap(default_text)
        IN  /\ fault = NoFault
            /\ pos = 0 => Session.state = "Idle"
            /\ (0 < pos /\ pos < Len(p)) => Session.state = "Active"
            /\ pos = Len(p) =>
                 /\ Session.state = "Finished"
                 /\ app_state = "Stats"
                 /\ get_input_words(Session) = get_attempted_words(Session)
                 /\ get_input_words(Session) = Split(p)
                 /\ active_stats.char_corr = active_stats.char_total
                 /\ active_stats.char_total > 0

\* C4 witness: a two-word passage fed to its end.
C4_Witness ==
    /\ default_text # None
    /\ WellFormed(Unwrap(default_text))
    /\ Len(Split(Unwrap(default_text))) = 2
    /\ pos = Len(Unwrap(default_text))
    /\ Session.state = "Finished"

\* test_3: passage "a b cd" typed as a, space, x, space, c, d.
Step(s, ev) ==
    IF ev = " " THEN on_space(s, 0) ELSE CHOOSE r \in on_char(s, ev, 0) : TRUE

RECURSIVE Replay(_, _)
Replay(s, evs) ==
    IF evs = <<>> THEN s ELSE Replay(Step(s, Head(evs)).session, Tail(evs))

Test3Session ==
    Replay(Session_from(<<"a", " ", "b", " ", "c", "d">>),
           <<"a", " ", "x", " ", "c", "d">>)

Test3Stats == SessionStats_from(Test3Session).stats

\* C5: for a Finished session with a correct word, word_total is the number
\* of input words, word_corr the number equal to their target, char_total the
\* sum of max(len) plus word_corr - 1 and char_corr the matching positions
\* plus word_corr - 1; "a b cd" typed a, space, x, space, c, d gives 4/5/2/3.
C5_StatsFormula ==
    /\ (Scored /\ active_stats.word_corr >= 1) =>
          LET n == Len(Session.input)
              MaxLen(i) == Max(Len(Session.input[i]), Len(Target(i)))
              Same(i) == Agree(Session.input[i], Target(i))
              corr == Cardinality({i \in 1..n : Session.input[i] = Target(i)})
          IN  /\ active_stats.word_total = n
              /\ active_stats.word_corr = corr
              /\ active_stats.char_total = SumOver(MaxLen, 1, n) + (corr - 1)
              /\ active_stats.char_corr = SumOver(Same, 1, n) + (corr - 1)
    /\ Test3Session.state = "Finished"
    /\ Test3Session.input = <<<<"a">>, <<"x">>, <<"c", "d">>>>
    /\ Test3Stats.char_corr = 4
    /\ Test3Stats.char_total = 5
    /\ Test3Stats.word_corr = 2
    /\ Test3Stats.word_total = 3

\* C5 witness: a scored session of two words, one of them correct.
C5_Witness ==
    /\ Scored
    /\ active_stats.word_total = 2
    /\ active_stats.word_corr = 1

\* C6: in every Finished session that was scored, char_corr, char_total and
\* the correct-word character count behind wpm are at least zero.
C6_CountsNotNegative ==
    Scored => /\ active_stats.char_corr >= 0
              /\ active_stats.char_total >= 0
              /\ active_stats.wpm.num >= 0

\* C7: in every Finished session that was scored, char_total is not zero.
C7_CharTotalNotZero == Scored => active_stats.char_total # 0

\* C8: get_attempted_words() is as long as input, holding at i the target
\* word the frozen lookup gives, or an empty word where it gives none.
C8_AttemptedSameLength ==
    LET att == get_attempted_words(Session)
    IN  /\ Len(att) = Len(Session.input)
        /\ \A i \in 1..Len(att) :
              LET w == get_word_at_frozen(Session.target_words, i - 1)
              IN  att[i] = IF w = None THEN <<>> ELSE Unwrap(w)

\* C9: on_del on an Idle session with input [""] raises no fault and leaves
\* the state Idle and the input [""].
C9_DelLegalWhenIdle ==
    [][(Session.state = "Idle" /\ Session.input = Fresh /\ OnDel)
          => /\ fault' = NoFault
             /\ Session'.state = "Idle"
             /\ Session'.input = Fresh]_vars

\* C10: active_stats changes only on the event that moves the session to
\* Finished, and is then the record computed from that session; Enter, delete
\* and Esc, and keys and spaces that do not finish the session, leave it alone.
C10_StatsOnlyOnFinish ==
    [][/\ active_stats' # active_stats
          => Session.state # "Finished" /\ Session'.state = "Finished"
       /\ (Session.state # "Finished" /\ Session'.state = "Finished")
          => /\ fault' = NoFault
             /\ app_state' = "Stats"
             /\ active_stats' = SessionStats_from(Session').stats
       /\ (KeyEnter \/ KeyDel \/ KeyEsc) => active_stats' = active_stats]_vars

\* C10 witness: a second session being typed while the first one's
\* statistics are still on record.
C10_Witness ==
    /\ app_state = "Typing"
    /\ Session.state = "Active"
    /\ active_stats.word_total > 0

\* C11: drawing the typing view and calling get_attempted_words() leave the
\* source's materialized words as they were, and get_attempted_words()
\* returns the same sequence after them as before.
C11_QueriesDoNotGrow ==
    [][(Draw \/ QueryAttempted)
          => /\ Session'.target_words = Session.target_words
             /\ get_attempted_words(Session') = get_attempted_words(Session)]_vars

\* C11 witness: a Random session holding more input words than its source
\* has materialized, where a growing render would add words.
C11_Witness ==
    /\ Session.target_words.kind = "Random"
    /\ Session.state = "Active"
    /\ Len(Session.input) > Len(Session.target_words.words)

Source == Session.target_words
Looked == Unwrap(looked)

\* C12: a Random source is append-only: a lookup leaves every materialized
\* word in place, a lookup at a materialized index returns the word that was
\* there, and a growing lookup never returns absent.
C12_RandomAppendOnly ==
    [][(Source.kind = "Random" /\ NextLookup) =>
          LET old == Source.words
              new == Source'.words
              hit == Unwrap(looked')
          IN  /\ Len(new) >= Len(old)
              /\ SubSeq(new, 1, Len(old)) = old
              /\ hit.index < Len(old) => hit.word = Some(old[hit.index + 1])
              /\ hit.growing => /\ hit.word # None
                                /\ hit.word = Some(new[hit.index + 1])
              /\ ~hit.growing => new = old]_vars

\* C12 witness: a growing lookup past the declared size, answered after a
\* word was already there.
C12_Witness ==
    /\ Source.kind = "Random"
    /\ looked # None
    /\ Looked.growing
    /\ Looked.index >= 1
    /\ Looked.index >= Unwrap(Source.size)
    /\ Len(Source.words) = Looked.index + 1

\* The words of a passage read off the positions of its spaces.
SpacePos(p) == {j \in 1..Len(p) : p[j] = " "}
NumWords(p) == Cardinality(SpacePos(p)) + 1
Boundary(p, k) ==
    IF k = 0 THEN 0
    ELSE IF k = NumWords(p) THEN Len(p) + 1
    ELSE CHOOSE j \in SpacePos(p) : Cardinality({x \in SpacePos(p) : x <= j}) = k
WordOf(p, i) == SubSeq(p, Boundary(p, i) + 1, Boundary(p, i + 1) - 1)

\* C13: for a Fixed source len() is the passage's word count, both lookups
\* return the i-th word below that count and absent from it on, and no
\* lookup changes the source.
C13_FixedLookups ==
    (Source.kind = "Static" /\ default_text # None) =>
        LET p == Unwrap(default_text)
        IN  /\ len(Source) = Some(NumWords(p))
            /\ \A i \in 0..MaxIndex :
                  LET want == IF i < NumWords(p) THEN Some(WordOf(p, i)) ELSE None
                  IN  /\ get_word_at_frozen(Source, i) = want
                      /\ get_word_at(Source, i) = {[gen |-> Source, word |-> want]}
            /\ looked # None =>
                  Looked.word = IF Looked.index < NumWords(p)
                                THEN Some(WordOf(p, Looked.index)) ELSE None

\* C13 witness: a two-word passage of single-space-joined words after a
\* growing lookup past its end.
C13_Witness ==
    /\ Source.kind = "Static"
    /\ WellFormed(Unwrap(default_text))
    /\ Len(Source.words) = 2
    /\ looked # None
    /\ Looked.growing
    /\ Looked.index = 2

\* C14: on_char(c) on an Idle or Active session appends c to the last input
\* word; the session is Finished afterwards exactly when the word count equals
\* the declared length and the updated last word equals its target, and
\* Active otherwise.
C14_CharAppendsAndEnds ==
    [][(Session.state \in {"Idle", "Active"} /\ OnChar) =>
          LET n == Len(Session.input)
          IN  /\ fault' = NoFault
              /\ \E c \in Chars :
                    Session'.input = [Session.input EXCEPT ![n] = Append(@, c)]
              /\ Session'.state \in {"Active", "Finished"}
              /\ Session'.state = "Finished"
                    <=> /\ len(Source) = Some(n)
                        /\ get_word_at_frozen(Source', n - 1)
                              = Some(Session'.input[n])]_vars

\* C14 witness: a session ended by the last character of its second word.
C14_Witness ==
    /\ Session.state = "Finished"
    /\ Len(Session.input) = 2
    /\ Session.input[2] # <<>>
    /\ Declared = Some(2)
    /\ Session.input[2] = Target(2)

Last(ws) == ws[Len(ws)]
Front(ws) == SubSeq(ws, 1, Len(ws) - 1)

\* C15: on_del on an Active session removes the last character of a non-empty
\* last word; with an empty last word and more than one word it removes that
\* word and leaves the one before it as it was; on [""] it changes nothing;
\* the session stays Active in all three cases.
C15_DelOnActive ==
    [][(Session.state = "Active" /\ OnDel) =>
          LET in == Session.input
          IN  /\ fault' = NoFault
              /\ Session'.state = "Active"
              /\ Session'.input =
                    IF Last(in) # <<>>
                    THEN Append(Front(in), Front(Last(in)))
                    ELSE IF Len(in) > 1 THEN Front(in)
                    ELSE Fresh]_vars

\* C15 witness: an Active session deleted back to [""], the floor.
C15_Witness ==
    /\ Session.state = "Active"
    /\ Session.input = Fresh

\* No word but the last is empty.
OnlyLastMayBeEmpty ==
    \A i \in 1..(Len(Session.input) - 1) : Session.input[i] # <<>>

\* C16: on_space on an Active session whose word count differs from the
\* declared length appends one empty word after a non-empty last word and
\* changes nothing after an empty one; no input word but the last is ever
\* empty.
C16_SpaceOpensOneWord ==
    /\ []OnlyLastMayBeEmpty
    /\ [][(Session.state = "Active" /\ ~AtDeclaredLength /\ OnSpace) =>
             /\ fault' = NoFault
             /\ Session' = [Session EXCEPT !.input =
                               IF Last(@) # <<>> THEN Append(@, <<>>) ELSE @]]_vars

\* C16 witness: a second word opened by a space and still empty.
C16_Witness ==
    /\ Session.state = "Active"
    /\ Len(Session.input) = 2
    /\ Session.input[1] # <<>>
    /\ Session.input[2] = <<>>

\* C17: on_space on an Idle session changes nothing: the state stays Idle,
\* start_time unset and the input [""], whatever the source and its length.
C17_SpaceIgnoredWhenIdle ==
    [][(Session.state = "Idle" /\ OnSpace) =>
          /\ fault' = NoFault
          /\ Session'.state = "Idle"
          /\ Session'.start_time = None
          /\ Session'.input = Fresh
          /\ Session' = Session]_vars

\* C17 witness: an Idle session of declared length 1, where a started session
\* would end on a space.
C17_Witness ==
    /\ Session.state = "Idle"
    /\ Declared = Some(1)
    /\ Len(Session.target_text) = 1

\* C18: an event leaves every input word before the last one as it was: it
\* changes the last word, appends a word or removes the last word.
C18_EarlierWordsKept ==
    [][(OnChar \/ OnSpace \/ OnDel) =>
          LET in == Session.input
              out == Session'.input
          IN  /\ Len(out) \in {Len(in) - 1, Len(in), Len(in) + 1}
              /\ SubSeq(out, 1, Len(in) - 1) = Front(in)
              /\ Len(out) = Len(in) + 1 => out[Len(in)] = Last(in)]_vars

\* C18 witness: two words typed, the first still as it was entered.
C18_Witness ==
    /\ Len(Session.input) = 2
    /\ Session.input[1] = <<"b">>
    /\ Session.input[2] = <<"a", "b">>

\* start_time and duration are set in the states that have them.
TimesMatchState ==
    /\ Session.start_time # None <=> Session.state \in {"Active", "Finished"}
    /\ Session.duration # None <=> Session.state = "Finished"

\* C19: start_time is set exactly in Active and Finished and duration exactly
\* in Finished; start_time is written only as the session leaves Idle and
\* duration only as it becomes Finished (one call may do both), and a value
\* once set never changes.
C19_TimesSetOnce ==
    /\ []TimesMatchState
    /\ [][/\ Session'.start_time # Session.start_time
             => /\ Session.state = "Idle" /\ Session.start_time = None
                /\ Session'.state \in {"Active", "Finished"}
                /\ Session'.start_time = Some(now)
          /\ Session'.duration # Session.duration
             => /\ Session.state \in {"Idle", "Active"} /\ Session.duration = None
                /\ Session'.state = "Finished"
                /\ Session'.duration = Some(now - Unwrap(Session'.start_time))
          /\ Session.start_time # None => Session'.start_time = Session.start_time
          /\ Session.duration # None => Session'.duration = Session.duration]_vars

\* C19 witness: a session started at one clock reading and stopped at the next.
C19_Witness ==
    /\ Session.state = "Finished"
    /\ Session.start_time = Some(0)
    /\ Session.duration = Some(1)

\* C20: no App event, in any sequence from the Menu, ends in a fault; delete
\* on the typing screen while the session is still Idle is one of them.
C20_NoHandlerFaults ==
    [][(KeyEsc \/ KeyEnter \/ KeySpace \/ KeyChar \/ KeyDel)
          => fault' = NoFault]_vars

IndexFault == "index out of bounds"

\* C21: a Finished session reached by on_char, on_space and on_del events has
\* as many input words as the source declares and get_attempted_words() as
\* long as input, so SessionStats::from never indexes attempted_words out of
\* range.
C21_FinishedFitsTarget ==
    /\ fault # IndexFault
    /\ Session.state = "Finished"
          => /\ Declared = Some(Len(Session.input))
             /\ Len(get_attempted_words(Session)) = Len(get_input_words(Session))
             /\ SessionStats_from(Session).fault # IndexFault

\* C21 witness: a Finished two-word session whose statistics were computed
\* over both words.
C21_Witness ==
    /\ Session.state = "Finished"
    /\ Len(Session.input) = 2
    /\ Len(get_attempted_words(Session)) = 2
    /\ active_stats.word_total = 2
    /\ fault = NoFault

====
